---- MODULE Spec2Model ----
(***************************************************************************)
(* Model of avro-rs: the zigzag variable-length integer codec and the      *)
(* allocation guard of src/util.rs, and the object container writer of     *)
(* src/ser/writer.rs.                                                      *)
(*                                                                         *)
(* Machine integers are bit vectors: a function from 0..w-1 to BOOLEAN,    *)
(* bit 0 the least significant, two's complement for the signed types.     *)
(* Bytes are integers 0..255.                                              *)
(***************************************************************************)
EXTENDS Integers, Sequences, FiniteSets, TLC

VARIABLES
    buffer,     \* Vec<u8> the zig_* functions push to
    encoded,    \* the integers pushed to buffer so far, in order (history)
    reader,     \* the bytes a reader (&[u8]) has not yet consumed
    rsrc,       \* what the reader was opened on: "none", "buffer", "raw"
    ridx,       \* number of decode calls made on this reader
    ret,        \* what the last decode call returned
    MAX_ALLOCATION_BYTES,       \* static mut MAX_ALLOCATION_BYTES
    MAX_ALLOCATION_BYTES_ONCE,  \* the Once: TRUE when its closure has run
    acall,      \* the last allocation-guard call and what it returned
    afirst,     \* the first allocation-guard call of the process (history)
    self,       \* the Writer: writer (sink), codec, marker, has_header
    wcall,      \* the last Writer call: operation, inputs, result
    wlog,       \* every Writer call so far: operation and success (history)
    pc,         \* where each thread is in its allocation-guard call
    targ,       \* the call of each thread: operation, argument, num_bytes
    tret,       \* what the call of each thread read and returned
    running,    \* the threads inside the closure of the Once
    installs    \* the values stored by runs of the closure, in order (history)

varintVars == <<buffer, encoded, reader, rsrc, ridx, ret>>
allocVars == <<MAX_ALLOCATION_BYTES, MAX_ALLOCATION_BYTES_ONCE, acall, afirst>>
writerVars == <<self, wcall, wlog>>
threadVars == <<pc, targ, tret, running, installs>>
vars == <<varintVars, allocVars, writerVars, threadVars>>

----------------------------------------------------------------------------
(* Bit vectors                                                             *)

\* the index of the sign bit: 63 or 31
Top(x) == IF 32 \in DOMAIN x THEN 63 ELSE 31

\* x << k
Shl(x, k) == [i \in DOMAIN x |-> IF i >= k THEN x[i - k] ELSE FALSE]

\* x >> k on a signed type (arithmetic)
Sar(x, k) ==
    LET t == Top(x)
    IN  [i \in DOMAIN x |-> IF i + k <= t THEN x[i + k] ELSE x[t]]

\* x >> k on an unsigned type (logical)
Shr(x, k) ==
    LET t == Top(x)
    IN  [i \in DOMAIN x |-> IF i + k <= t THEN x[i + k] ELSE FALSE]

Xor(x, y) == [i \in DOMAIN x |-> x[i] # y[i]]

Or(x, y) == [i \in DOMAIN x |-> x[i] \/ y[i]]

Not(x) == [i \in DOMAIN x |-> ~x[i]]

\* the w-bit two's complement vector of a small integer k, -2^30 <= k < 2^30
FromInt(k, w) ==
    [i \in 0..(w - 1) |-> IF i < 30 THEN ((k \div (2 ^ i)) % 2) = 1 ELSE k < 0]

\* i64::from(x) for x: i32 (sign extension)
I64FromI32(x) == [i \in 0..63 |-> IF i < 32 THEN x[i] ELSE x[31]]

\* x as i32 for x: i64 (truncation)
AsI32(x) == [i \in 0..31 |-> x[i]]

\* x <= y as unsigned integers of the same width
ULe(x, y) ==
    \/ x = y
    \/ LET d == CHOOSE i \in DOMAIN x :
                    /\ x[i] # y[i]
                    /\ \A j \in DOMAIN x : j > i => x[j] = y[j]
       IN  y[d]

\* x <= y as signed integers of the same width
SLe(x, y) ==
    IF x[Top(x)] # y[Top(y)] THEN x[Top(x)] ELSE ULe(x, y)

\* (x & 0x7F) as u8
Low7(x) ==
    LET b(k) == IF x[k] THEN 2 ^ k ELSE 0
    IN  b(0) + b(1) + b(2) + b(3) + b(4) + b(5) + b(6)

\* 0x7F and 0 as i64 / u64
I64_0x7F == FromInt(127, 64)
U64_0 == FromInt(0, 64)

I64_MIN == Shl(FromInt(1, 64), 63)
I64_MAX == Not(I64_MIN)
I32_MIN == Shl(FromInt(1, 32), 31)
I32_MAX == Not(I32_MIN)

----------------------------------------------------------------------------
(* The codec of src/util.rs                                                *)

RECURSIVE encode_variable(_, _)
encode_variable(z, buf) ==
    IF SLe(z, I64_0x7F)
    THEN Append(buf, Low7(z))
    ELSE encode_variable(Sar(z, 7), Append(buf, 128 + Low7(z)))

zig_i32(n, buf) ==
    encode_variable(I64FromI32(Xor(Shl(n, 1), Sar(n, 31))), buf)

zig_i64(n, buf) ==
    encode_variable(Xor(Shl(n, 1), Sar(n, 63)), buf)

\* a Result<_, Error> of the decoders, with the reader as the call leaves it
Ok(v, rest) == [ok |-> TRUE, val |-> v, err |-> "", rest |-> rest]
Err(e, rest) == [ok |-> FALSE, val |-> <<>>, err |-> e, rest |-> rest]

\* decode_loop without the bound on j: reading for as long as the
\* continuation bit is set
RECURSIVE decode_loop_unbounded(_, _, _)
decode_loop_unbounded(r, i, j) ==
    IF r = <<>>
    THEN Err("io: UnexpectedEof", r)
    ELSE LET b == Head(r)
             i2 == Or(i, Shl(FromInt(b % 128, 64), j * 7))
         IN  IF b \div 128 = 0
             THEN Ok(i2, Tail(r))
             ELSE decode_loop_unbounded(Tail(r), i2, j + 1)

\* decode_loop with the bound on j off by one
RECURSIVE decode_loop_11(_, _, _)
decode_loop_11(r, i, j) ==
    IF j > 10
    THEN Err("DecodeError: Overflow when decoding integer value", r)
    ELSE IF r = <<>>
    THEN Err("io: UnexpectedEof", r)
    ELSE LET b == Head(r)
             i2 == Or(i, Shl(FromInt(b % 128, 64), j * 7))
         IN  IF b \div 128 = 0
             THEN Ok(i2, Tail(r))
             ELSE decode_loop_11(Tail(r), i2, j + 1)

\* the loop of decode_variable, for a reader over a byte slice: read_exact
\* on an exhausted slice is an io::Error of kind UnexpectedEof
RECURSIVE decode_loop(_, _, _)
decode_loop(r, i, j) ==
    IF j > 9
    THEN Err("DecodeError: Overflow when decoding integer value", r)
    ELSE IF r = <<>>
    THEN Err("io: UnexpectedEof", r)
    ELSE LET b == Head(r)
             i2 == Or(i, Shl(FromInt(b % 128, 64), j * 7))
         IN  IF b \div 128 = 0
             THEN Ok(i2, Tail(r))
             ELSE decode_loop(Tail(r), i2, j + 1)

decode_variable(r) == decode_loop(r, U64_0, 0)

zag_i64(r) ==
    LET z == decode_variable(r)
    IN  IF ~z.ok THEN z
        ELSE IF ~z.val[0]
        THEN Ok(Shr(z.val, 1), z.rest)
        ELSE Ok(Not(Shr(z.val, 1)), z.rest)

\* zag_i32 without the range check: the value narrowed by `as i32`
zag_i32_truncating(r) ==
    LET i == zag_i64(r)
    IN  IF ~i.ok THEN i
        ELSE Ok(AsI32(i.val), i.rest)

zag_i32(r) ==
    LET i == zag_i64(r)
    IN  IF ~i.ok THEN i
        ELSE IF \/ ~SLe(I64FromI32(I32_MIN), i.val)
                \/ ~SLe(i.val, I64FromI32(I32_MAX))
        THEN Err("DecodeError: int out of range", i.rest)
        ELSE Ok(AsI32(i.val), i.rest)

read_long(r) == zag_i64(r)

----------------------------------------------------------------------------
(* Inputs of the codec                                                     *)

\* number of integers pushed to one buffer
MaxInts == 2
\* number of decode calls made on one reader
MaxReads == 2
\* length of a raw byte sequence handed to a decoder
MaxRaw == 11

SmallInts == {0, -1, 42}

\* 2^k in w bits
Pow2(k, w) == Shl(FromInt(1, w), k)
\* 2^k - 1 in w bits
Pow2Minus1(k, w) == Not(Shl(FromInt(-1, w), k))
\* -2^k in w bits
NegPow2(k, w) == Shl(FromInt(-1, w), k)
\* -2^k - 1 in w bits
NegPow2Minus1(k, w) == Not(Shl(FromInt(1, w), k))

\* the small values, the bounds of i32 and their neighbours, the first values
\* whose zigzag code has bit 63 set, and the bounds of i64
I64Inputs ==
    {FromInt(c, 64) : c \in SmallInts}
    \cup {Pow2Minus1(31, 64), Pow2(31, 64), NegPow2(31, 64), NegPow2Minus1(31, 64)}
    \cup {Pow2(62, 64), NegPow2Minus1(62, 64), I64_MAX, I64_MIN}

\* the small values, the first values whose zigzag code has bit 31 set, and
\* the bounds of i32
I32Inputs ==
    {FromInt(c, 32) : c \in SmallInts}
    \cup {Pow2(30, 32), NegPow2Minus1(30, 32), I32_MAX, I32_MIN}

Rep(b, k) == [i \in 1..k |-> b]

\* byte sequences that are not the output of an encoder: runs of bytes with
\* the continuation bit set, alone or closed by a byte with the bit clear
RawInputs ==
    {Rep(b, k) : b \in {225, 128, 255}, k \in 0..MaxRaw}
    \cup {Append(Rep(b, k), t) : b \in {225, 255}, k \in 0..(MaxRaw - 1), t \in {0, 1, 127}}

NoRet == [op |-> "none", input |-> <<>>, res |-> Err("", <<>>)]

VarintInit ==
    /\ buffer = <<>>
    /\ encoded = <<>>
    /\ reader = <<>>
    /\ rsrc = "none"
    /\ ridx = 0
    /\ ret = NoRet

CloseReader ==
    /\ UNCHANGED <<allocVars, writerVars, threadVars>>
    /\ reader' = <<>>
    /\ rsrc' = "none"
    /\ ridx' = 0
    /\ ret' = NoRet

\* zig_i64(n, &mut buffer)
ZigI64(n) ==
    /\ Len(encoded) < MaxInts
    /\ buffer' = zig_i64(n, buffer)
    /\ encoded' = Append(encoded, [w |-> 64, v |-> n])
    /\ CloseReader

\* zig_i32(n, &mut buffer)
ZigI32(n) ==
    /\ Len(encoded) < MaxInts
    /\ buffer' = zig_i32(n, buffer)
    /\ encoded' = Append(encoded, [w |-> 32, v |-> n])
    /\ CloseReader

\* buffer.clear()
Clear ==
    /\ buffer # <<>>
    /\ buffer' = <<>>
    /\ encoded' = <<>>
    /\ CloseReader

\* let reader = &mut &buffer[..]
OpenBuffer ==
    /\ buffer # <<>>
    /\ reader' = buffer
    /\ rsrc' = "buffer"
    /\ ridx' = 0
    /\ ret' = NoRet
    /\ UNCHANGED <<buffer, encoded, allocVars, writerVars, threadVars>>

\* let reader = &mut &bytes[..]
OpenRaw(bytes) ==
    /\ buffer = <<>>
    /\ reader' = bytes
    /\ rsrc' = "raw"
    /\ ridx' = 0
    /\ ret' = NoRet
    /\ UNCHANGED <<buffer, encoded, allocVars, writerVars, threadVars>>

Decode(op, r) ==
    /\ rsrc # "none"
    /\ ridx < MaxReads
    /\ ret' = [op |-> op, input |-> reader, res |-> r]
    /\ reader' = r.rest
    /\ ridx' = ridx + 1
    /\ UNCHANGED <<buffer, encoded, rsrc, allocVars, writerVars, threadVars>>

ZagI64 == Decode("zag_i64", zag_i64(reader))

ZagI32 == Decode("zag_i32", zag_i32(reader))

DecodeVariable == Decode("decode_variable", decode_variable(reader))

VarintNext ==
    \/ \E n \in I64Inputs : ZigI64(n)
    \/ \E n \in I32Inputs : ZigI32(n)
    \/ Clear
    \/ OpenBuffer
    \/ \E bytes \in RawInputs : OpenRaw(bytes)
    \/ ZagI64
    \/ ZagI32
    \/ DecodeVariable

----------------------------------------------------------------------------
(* The allocation guard of src/util.rs                                     *)

DefaultMaxAllocationBytes == 512 * 1024 * 1024

\* usize arguments
SizeInputs ==
    {0, 1, 42, 1024, DefaultMaxAllocationBytes - 1, DefaultMaxAllocationBytes,
     DefaultMaxAllocationBytes + 1, 1024 * 1024 * 1024}

\* Once::call_once on the guard st = [max, once], the closure storing num_bytes
\* call_once running its closure on every call
call_once_always(num_bytes, st) == [max |-> num_bytes, once |-> TRUE]

call_once(num_bytes, st) ==
    IF st.once THEN st ELSE [max |-> num_bytes, once |-> TRUE]

max_allocation_bytes(num_bytes, st) ==
    LET st2 == call_once(num_bytes, st)
    IN  [st |-> st2, ok |-> TRUE, val |-> st2.max, err |-> ""]

\* safe_len with < for <=
safe_len_strict(len, st) ==
    LET m == max_allocation_bytes(DefaultMaxAllocationBytes, st)
        max_bytes == m.val
    IN  IF len < max_bytes
        THEN [st |-> m.st, ok |-> TRUE, val |-> len, err |-> ""]
        ELSE [st |-> m.st, ok |-> FALSE, val |-> max_bytes, err |-> "AllocationError"]

safe_len(len, st) ==
    LET m == max_allocation_bytes(DefaultMaxAllocationBytes, st)
        max_bytes == m.val
    IN  IF len <= max_bytes
        THEN [st |-> m.st, ok |-> TRUE, val |-> len, err |-> ""]
        ELSE [st |-> m.st, ok |-> FALSE, val |-> max_bytes, err |-> "AllocationError"]

Guard == [max |-> MAX_ALLOCATION_BYTES, once |-> MAX_ALLOCATION_BYTES_ONCE]

NoCall == [op |-> "none", arg |-> 0]

AllocInit ==
    /\ MAX_ALLOCATION_BYTES = DefaultMaxAllocationBytes
    /\ MAX_ALLOCATION_BYTES_ONCE = FALSE
    /\ acall = [op |-> "none", arg |-> 0, ok |-> TRUE, val |-> 0, err |-> ""]
    /\ afirst = NoCall

AllocCall(op, arg, r) ==
    /\ MAX_ALLOCATION_BYTES' = r.st.max
    /\ MAX_ALLOCATION_BYTES_ONCE' = r.st.once
    /\ acall' = [op |-> op, arg |-> arg, ok |-> r.ok, val |-> r.val, err |-> r.err]
    /\ afirst' = IF afirst = NoCall THEN [op |-> op, arg |-> arg] ELSE afirst
    /\ UNCHANGED <<varintVars, writerVars, threadVars>>

MaxAllocationBytes(num_bytes) ==
    AllocCall("max_allocation_bytes", num_bytes, max_allocation_bytes(num_bytes, Guard))

SafeLen(len) ==
    AllocCall("safe_len", len, safe_len(len, Guard))

AllocNext ==
    \/ \E num_bytes \in SizeInputs : MaxAllocationBytes(num_bytes)
    \/ \E len \in SizeInputs : SafeLen(len)

----------------------------------------------------------------------------
(* The allocation guard called from several threads                        *)
(*                                                                         *)
(* A call of max_allocation_bytes is two steps of its thread, call_once    *)
(* and the read of the static; call_once is itself up to three: entering   *)
(* the Once, the closure's store, and the completion of the Once. A thread *)
(* that enters while another runs the closure blocks until completion,     *)
(* which also orders the store before every read that follows call_once.   *)

\* number of threads, each making one call
NumThreads == 3

Threads == 1..NumThreads

\* the calls a thread makes: max_allocation_bytes(num_bytes), or
\* safe_len(len), which calls max_allocation_bytes(512 MiB)
ThreadCalls ==
    {[op |-> "max_allocation_bytes", arg |-> n, num_bytes |-> n] : n \in {42, 1024}}
    \cup {[op |-> "safe_len", arg |-> len, num_bytes |-> DefaultMaxAllocationBytes] :
            len \in {1024, 1024 * 1024 * 1024}}

NoThreadCall == [op |-> "none", arg |-> 0, num_bytes |-> 0]
NoThreadRet == [ok |-> TRUE, val |-> 0, max_bytes |-> 0, complete |-> FALSE]

\* the state of the Once
OnceState ==
    IF MAX_ALLOCATION_BYTES_ONCE THEN "complete"
    ELSE IF running # {} THEN "running"
    ELSE "incomplete"

\* call_once letting every caller that finds the Once not complete run the
\* closure
once_enter_unsynchronized(s) ==
    IF s = "complete" THEN "return" ELSE "run"

\* what Once::call_once does with a caller that finds the Once in state s
once_enter(s) ==
    IF s = "complete" THEN "return"
    ELSE IF s = "incomplete" THEN "run"
    ELSE "wait"

ThreadInit ==
    /\ pc = [t \in Threads |-> "idle"]
    /\ targ = [t \in Threads |-> NoThreadCall]
    /\ tret = [t \in Threads |-> NoThreadRet]
    /\ running = {}
    /\ installs = <<>>

\* thread t calls max_allocation_bytes or safe_len
ThreadCall(t, call) ==
    /\ pc[t] = "idle"
    /\ pc' = [pc EXCEPT ![t] = "call_once"]
    /\ targ' = [targ EXCEPT ![t] = call]
    /\ UNCHANGED <<tret, running, installs, varintVars, allocVars, writerVars>>

\* MAX_ALLOCATION_BYTES_ONCE.call_once(..): t runs the closure, or returns
\* because the Once is complete, or stays blocked
CallOnce(t) ==
    /\ pc[t] = "call_once"
    /\ once_enter(OnceState) # "wait"
    /\ IF once_enter(OnceState) = "run"
       THEN /\ running' = running \cup {t}
            /\ pc' = [pc EXCEPT ![t] = "closure"]
       ELSE /\ running' = running
            /\ pc' = [pc EXCEPT ![t] = "read"]
    /\ UNCHANGED <<targ, tret, installs, varintVars, allocVars, writerVars>>

\* MAX_ALLOCATION_BYTES = num_bytes
Closure(t) ==
    /\ pc[t] = "closure"
    /\ MAX_ALLOCATION_BYTES' = targ[t].num_bytes
    /\ installs' = Append(installs, targ[t].num_bytes)
    /\ pc' = [pc EXCEPT ![t] = "stored"]
    /\ UNCHANGED <<targ, tret, running, MAX_ALLOCATION_BYTES_ONCE, acall, afirst,
                   varintVars, writerVars>>

\* the closure returns: the Once is complete and its waiters are released
OnceComplete(t) ==
    /\ pc[t] = "stored"
    /\ MAX_ALLOCATION_BYTES_ONCE' = TRUE
    /\ running' = running \ {t}
    /\ pc' = [pc EXCEPT ![t] = "read"]
    /\ UNCHANGED <<targ, tret, installs, MAX_ALLOCATION_BYTES, acall, afirst,
                   varintVars, writerVars>>

\* the read of MAX_ALLOCATION_BYTES that max_allocation_bytes returns, and
\* for safe_len the comparison of len with it
ReadCeiling(t) ==
    /\ pc[t] = "read"
    /\ LET max_bytes == MAX_ALLOCATION_BYTES
           ok == targ[t].op = "max_allocation_bytes" \/ targ[t].arg <= max_bytes
           val == IF targ[t].op = "max_allocation_bytes" THEN max_bytes ELSE targ[t].arg
       IN  tret' = [tret EXCEPT ![t] =
                        [ok |-> ok, val |-> val, max_bytes |-> max_bytes,
                         complete |-> MAX_ALLOCATION_BYTES_ONCE]]
    /\ pc' = [pc EXCEPT ![t] = "done"]
    /\ UNCHANGED <<targ, running, installs, varintVars, allocVars, writerVars>>

ThreadNext ==
    \E t \in Threads :
        \/ \E call \in ThreadCalls : ThreadCall(t, call)
        \/ CallOnce(t)
        \/ Closure(t)
        \/ OnceComplete(t)
        \/ ReadCeiling(t)

----------------------------------------------------------------------------
(* The container writer of src/ser/writer.rs                               *)
(*                                                                         *)
(* The sink (self.writer) is the sequence of the buffers it has accepted,  *)
(* one chunk per call of Write::write, each labelled with what the Writer  *)
(* was writing. A call of write either accepts its whole buffer or fails   *)
(* and accepts nothing, as Vec<u8> and the other whole-buffer sinks do.    *)
(* A call runs in a context cx: the Writer, the faults its collaborators   *)
(* and its sink will raise, and the number of sink writes attempted.       *)

\* number of calls made on one Writer
MaxCalls == 2

Magic == <<79, 98, 106, 1>>

Codecs == {"null", "deflate"}

\* the 16 bytes random::<u8>() gave with_codec
Markers == {[i \in 1..16 |-> 16 + i], [i \in 1..16 |-> 255 - i]}

\* application values: what Serializer and encode make of them
ValueA == [kind |-> "ok", enc |-> <<2>>]
ValueB == [kind |-> "ok", enc |-> <<4, 6>>]
Unserializable == [kind |-> "unserializable", enc |-> <<>>]
Mismatch == [kind |-> "mismatch", enc |-> <<>>]
Values == {ValueA, ValueB, Unserializable, Mismatch}

\* the batches given to extend: the empty one, batches of values that all
\* encode, in both orders, and batches with a value that does not
Batches ==
    {<<>>, <<ValueA, ValueB>>, <<ValueB, ValueA>>,
     <<ValueA, Mismatch>>, <<ValueA, Unserializable>>,
     <<Mismatch, ValueB>>, <<Unserializable, Mismatch>>}

\* every value of the batch serializes and encodes
Clean(values) == \A i \in 1..Len(values) : values[i].kind = "ok"

\* faults of one call, at most one: fuse = k > 0 makes the call's k-th sink
\* write fail; json_ok = FALSE makes serde_json::to_string fail;
\* compress_ok = FALSE makes Codec::compress fail
NoFault == [fuse |-> 0, json_ok |-> TRUE, compress_ok |-> TRUE]
Envs ==
    {[NoFault EXCEPT !.fuse = k] : k \in 0..(3 + 4)}
    \cup {[NoFault EXCEPT !.json_ok = FALSE], [NoFault EXCEPT !.compress_ok = FALSE]}

\* the call op(values) on the Writer w reaches the fault of env before it
\* returns; a fault the call does not reach is no fault of the call
Reaches(op, values, w, env) ==
    LET hdr == op = "header" \/ (Clean(values) /\ ~w.has_header)
        writes == IF op = "header" THEN 3
                  ELSE IF ~Clean(values) THEN 0
                  ELSE IF w.has_header THEN 4 ELSE 3 + 4
    IN  /\ env.fuse <= writes
        /\ ~env.json_ok => hdr
        /\ ~env.compress_ok => (op # "header" /\ Clean(values))

Context(w, env) == [self |-> w, env |-> env, writes |-> 0]

\* a Result<usize, Error> and the context the call leaves
ROk(cx, n) == [cx |-> cx, ok |-> TRUE, n |-> n, err |-> ""]
RErr(cx, e) == [cx |-> cx, ok |-> FALSE, n |-> 0, err |-> e]

RECURSIVE Concat(_)
Concat(ss) == IF ss = <<>> THEN <<>> ELSE Head(ss) \o Concat(Tail(ss))

\* every byte the sink holds, in order
SinkBytes(chunks) == Concat([i \in 1..Len(chunks) |-> chunks[i].bytes])

\* write trying the sink once more when it fails
write_retrying(cx, kind, bytes) ==
    LET cx1 == [cx EXCEPT !.writes = @ + 1]
        cx2 == IF cx1.writes = cx.env.fuse THEN [cx1 EXCEPT !.writes = @ + 1] ELSE cx1
    IN  ROk([cx2 EXCEPT !.self.writer = Append(@, [kind |-> kind, bytes |-> bytes])],
            Len(bytes))

\* write with the sink's error swallowed instead of returned
write_unchecked(cx, kind, bytes) ==
    LET cx1 == [cx EXCEPT !.writes = @ + 1]
    IN  IF cx1.writes = cx.env.fuse
        THEN ROk(cx1, 0)
        ELSE ROk([cx1 EXCEPT !.self.writer = Append(@, [kind |-> kind, bytes |-> bytes])],
                 Len(bytes))

\* self.writer.write(bytes)?
write(cx, kind, bytes) ==
    LET cx1 == [cx EXCEPT !.writes = @ + 1]
    IN  IF cx1.writes = cx.env.fuse
        THEN RErr(cx1, "io")
        ELSE ROk([cx1 EXCEPT !.self.writer = Append(@, [kind |-> kind, bytes |-> bytes])],
                 Len(bytes))

\* Option<Vec<u8>>, what value.encode(schema) returns
Some(stream) == [some |-> TRUE, stream |-> stream]
None == [some |-> FALSE, stream |-> <<>>]

\* encode(&Schema::Long, n) of a count or a length
EncodeLong(n) == Some(zig_i64(FromInt(n, 64), <<>>))

\* metadata.avro() encoded as a map of bytes: the schema's JSON and the codec
EncodeMetadata(codec) ==
    Some(IF codec = "null" THEN <<2, 110, 0>> ELSE <<2, 100, 0>>)

\* Codec::compress
compress(codec, stream, env) ==
    IF ~env.compress_ok THEN [ok |-> FALSE, stream |-> <<>>]
    ELSE IF codec = "null" THEN [ok |-> TRUE, stream |-> stream]
    ELSE [ok |-> TRUE, stream |-> <<3>> \o stream \o <<0>>]

\* append_marker writing 16 bytes drawn afresh instead of self.marker
append_marker_fresh(cx) ==
    write(cx, "marker", CHOOSE m \in Markers : m # cx.self.marker)

append_marker(cx) == write(cx, "marker", cx.self.marker)

\* enc is what value.encode(schema) returned
append_raw(cx, kind, enc) ==
    IF ~enc.some
    THEN RErr(cx, "value does not match given schema")
    ELSE write(cx, kind, enc.stream)

header(cx) ==
    IF ~cx.env.json_ok THEN RErr(cx, "serde_json")
    ELSE
    LET a == append_raw(cx, "magic", Some(Magic))
    IN  IF ~a.ok THEN a ELSE
    LET b == append_raw(a.cx, "metadata", EncodeMetadata(cx.self.codec))
    IN  IF ~b.ok THEN b ELSE
    LET c == append_marker(b.cx)
    IN  IF ~c.ok THEN c ELSE
    ROk(c.cx, a.n + b.n + c.n)

\* the loop of extend putting each stream before the ones pushed so far
RECURSIVE encode_values_reversed(_, _)
encode_values_reversed(values, v) ==
    IF values = <<>> THEN [ok |-> TRUE, v |-> v, num_values |-> Len(v), err |-> ""]
    ELSE LET value == Head(values)
         IN  IF value.kind = "unserializable"
             THEN [ok |-> FALSE, v |-> v, num_values |-> Len(v), err |-> "serialize"]
             ELSE IF value.kind = "mismatch"
             THEN [ok |-> FALSE, v |-> v, num_values |-> Len(v),
                   err |-> "value does not match schema"]
             ELSE encode_values_reversed(Tail(values), <<value.enc>> \o v)

\* the loop of extend dropping the values it cannot encode (the filter_map
\* of the commented-out version)
RECURSIVE encode_values_filter(_, _)
encode_values_filter(values, v) ==
    IF values = <<>> THEN [ok |-> TRUE, v |-> v, num_values |-> Len(v), err |-> ""]
    ELSE LET value == Head(values)
         IN  IF value.kind # "ok"
             THEN encode_values_filter(Tail(values), v)
             ELSE encode_values_filter(Tail(values), Append(v, value.enc))

\* the for loop of extend over the values left, v the streams pushed so far
RECURSIVE encode_values(_, _)
encode_values(values, v) ==
    IF values = <<>> THEN [ok |-> TRUE, v |-> v, num_values |-> Len(v), err |-> ""]
    ELSE LET value == Head(values)
         IN  IF value.kind = "unserializable"
             THEN [ok |-> FALSE, v |-> v, num_values |-> Len(v), err |-> "serialize"]
             ELSE IF value.kind = "mismatch"
             THEN [ok |-> FALSE, v |-> v, num_values |-> Len(v),
                   err |-> "value does not match schema"]
             ELSE encode_values(Tail(values), Append(v, value.enc))

\* if !self.has_header
header_pending(w) == ~w.has_header

\* the flag left as it was
set_has_header_forgotten(cx) == cx

\* self.has_header = true
set_has_header(cx) == [cx EXCEPT !.self.has_header = TRUE]

\* the value of Ok(...) that extend returns, from the four writes' counts
extend_result(h, a, b, c, d) == a.n + b.n + c.n + d.n

\* extend returning at once, with nothing written, when the batch is empty
extend_short_circuit(cx, values) ==
    IF values = <<>> THEN ROk(cx, 0) ELSE
    LET e == encode_values(values, <<>>)
    IN  IF ~e.ok THEN RErr(cx, e.err) ELSE
    LET z == compress(cx.self.codec, Concat(e.v), cx.env)
    IN  IF ~z.ok THEN RErr(cx, "compress") ELSE
    LET h == IF header_pending(cx.self) THEN header(cx) ELSE ROk(cx, 0)
    IN  IF ~h.ok THEN h ELSE
    LET cx1 == IF header_pending(cx.self) THEN set_has_header(h.cx) ELSE h.cx
        a == append_raw(cx1, "count", EncodeLong(e.num_values))
    IN  IF ~a.ok THEN a ELSE
    LET b == append_raw(a.cx, "length", EncodeLong(Len(z.stream)))
    IN  IF ~b.ok THEN b ELSE
    LET c == write(b.cx, "payload", z.stream)
    IN  IF ~c.ok THEN c ELSE
    LET d == append_marker(c.cx)
    IN  IF ~d.ok THEN d ELSE
    ROk(d.cx, extend_result(h, a, b, c, d))

extend(cx, values) ==
    LET e == encode_values(values, <<>>)
    IN  IF ~e.ok THEN RErr(cx, e.err) ELSE
    LET z == compress(cx.self.codec, Concat(e.v), cx.env)
    IN  IF ~z.ok THEN RErr(cx, "compress") ELSE
    LET h == IF header_pending(cx.self) THEN header(cx) ELSE ROk(cx, 0)
    IN  IF ~h.ok THEN h ELSE
    LET cx1 == IF header_pending(cx.self) THEN set_has_header(h.cx) ELSE h.cx
        a == append_raw(cx1, "count", EncodeLong(e.num_values))
    IN  IF ~a.ok THEN a ELSE
    LET b == append_raw(a.cx, "length", EncodeLong(Len(z.stream)))
    IN  IF ~b.ok THEN b ELSE
    LET c == write(b.cx, "payload", z.stream)
    IN  IF ~c.ok THEN c ELSE
    LET d == append_marker(c.cx)
    IN  IF ~d.ok THEN d ELSE
    ROk(d.cx, extend_result(h, a, b, c, d))

append(cx, value) == extend(cx, <<value>>)

NoWriterCall ==
    [op |-> "none", values |-> <<>>, env |-> NoFault, before |-> <<>>,
     pending |-> TRUE, ok |-> TRUE, n |-> 0, err |-> "", writes |-> 0]

\* Writer::with_codec(schema, writer, codec) when random gave marker
with_codec(codec, marker) ==
    [writer |-> <<>>, codec |-> codec, marker |-> marker, has_header |-> FALSE]

WriterInit ==
    /\ self \in {with_codec(c, m) : c \in Codecs, m \in Markers}
    /\ wcall = NoWriterCall
    /\ wlog = <<>>

WriterCall(op, values, env, r) ==
    /\ Len(wlog) < MaxCalls
    /\ Reaches(op, values, self, env)
    /\ self' = r.cx.self
    /\ wcall' = [op |-> op, values |-> values, env |-> env, before |-> self.writer,
                 pending |-> ~self.has_header,
                 ok |-> r.ok, n |-> r.n, err |-> r.err, writes |-> r.cx.writes]
    /\ wlog' = Append(wlog, [op |-> op, ok |-> r.ok])
    /\ UNCHANGED <<varintVars, allocVars, threadVars>>

Header(env) ==
    WriterCall("header", <<>>, env, header(Context(self, env)))

AppendValue(value, env) ==
    WriterCall("append", <<value>>, env, append(Context(self, env), value))

Extend(values, env) ==
    WriterCall("extend", values, env, extend(Context(self, env), values))

WriterNext ==
    \/ \E env \in Envs : Header(env)
    \/ \E value \in Values, env \in Envs : AppendValue(value, env)
    \/ \E values \in Batches, env \in Envs : Extend(values, env)

----------------------------------------------------------------------------
(* Specifications                                                          *)

Init == VarintInit /\ AllocInit /\ WriterInit /\ ThreadInit

Next == VarintNext \/ AllocNext \/ WriterNext \/ ThreadNext

Spec == Init /\ [][Next]_vars

\* the one Writer of the runs that make no Writer call
IdleWriter == with_codec("null", [i \in 1..16 |-> 16 + i])

InitIdleWriter == Init /\ self = IdleWriter

\* the codec alone
SpecVarint == InitIdleWriter /\ [][VarintNext]_vars

\* the allocation guard alone
SpecAlloc == InitIdleWriter /\ [][AllocNext]_vars

\* one Writer alone
SpecWriter == Init /\ [][WriterNext]_vars

\* threads calling the allocation guard concurrently
SpecThreads == InitIdleWriter /\ [][ThreadNext]_vars

----------------------------------------------------------------------------
(* Claims about the codec (SpecVarint)                                     *)

\* the first decode call on a reader over a buffer holding one integer
DecodedSingle(op, w) ==
    /\ rsrc = "buffer"
    /\ ridx = 1
    /\ ret.op = op
    /\ Len(encoded) = 1
    /\ encoded[1].w = w

\* C1: zag_i64 on the bytes zig_i64(n) pushed returns n, and zag_i32 on the
\* bytes zig_i32(n) pushed returns n, for every n of the width.
ZigzagRoundTrip ==
    /\ DecodedSingle("zag_i64", 64) => (ret.res.ok /\ ret.res.val = encoded[1].v)
    /\ DecodedSingle("zag_i32", 32) => (ret.res.ok /\ ret.res.val = encoded[1].v)

\* C2: zig_i32(n) pushes to an empty buffer the bytes that zig_i64 pushes
\* for n widened to 64 bits.
WidthEquivalence ==
    (Len(encoded) = 1 /\ encoded[1].w = 32) =>
        buffer = zig_i64(I64FromI32(encoded[1].v), <<>>)

\* a decode call was made on a reader that held bytes, each with the
\* continuation bit set
DecodedContinuationRun ==
    /\ ret.op \in {"decode_variable", "zag_i64", "zag_i32"}
    /\ ret.input # <<>>
    /\ \A k \in 1..Len(ret.input) : ret.input[k] >= 128

\* C10 as claimed: decoding bytes that all have the continuation bit set
\* fails with the overflow DecodeError and no other error.
OverflowRejection ==
    DecodedContinuationRun =>
        /\ ~ret.res.ok
        /\ ret.res.err = "DecodeError: Overflow when decoding integer value"

\* C10 amended: decoding bytes that all have the continuation bit set fails;
\* with the overflow DecodeError when there are 10 bytes or more, and with
\* the reader's UnexpectedEof when there are fewer.
OverflowOrEof ==
    DecodedContinuationRun =>
        /\ ~ret.res.ok
        /\ ret.res.err = IF Len(ret.input) >= 10
                         THEN "DecodeError: Overflow when decoding integer value"
                         ELSE "io: UnexpectedEof"

\* decode_variable was called on [0xE1, 0xE1, 0xE1, 0xE1, 0xE1] and failed
OverflowOrEofWitness ==
    /\ ret.op = "decode_variable"
    /\ ret.input = <<225, 225, 225, 225, 225>>
    /\ ~ret.res.ok
    /\ ret.res.err = "io: UnexpectedEof"

\* the unsigned zigzag value of a 64-bit n: 2n for n >= 0, -2n-1 for n < 0
ZigzagOf(n) == IF n[63] THEN Not(Shl(n, 1)) ELSE Shl(n, 1)

\* base 128 of the unsigned u, least-significant group first, the
\* continuation bit on every byte except the last
RECURSIVE Base128(_)
Base128(u) ==
    IF ULe(u, I64_0x7F)
    THEN <<Low7(u)>>
    ELSE <<128 + Low7(u)>> \o Base128(Shr(u, 7))

\* C13: for every 64-bit n, zig_i64(n) appends the base-128 encoding of the
\* unsigned zigzag value of n; 2147483647 -> [254,255,255,255,15],
\* 2147483648 -> [128,128,128,128,16], -2147483648 -> [255,255,255,255,15],
\* -2147483649 -> [129,128,128,128,16].
EncoderMatchesReference ==
    (Len(encoded) = 1 /\ encoded[1].w = 64) =>
        LET n == encoded[1].v
        IN  /\ buffer = Base128(ZigzagOf(n))
            /\ n = Pow2Minus1(31, 64) => buffer = <<254, 255, 255, 255, 15>>
            /\ n = Pow2(31, 64) => buffer = <<128, 128, 128, 128, 16>>
            /\ n = NegPow2(31, 64) => buffer = <<255, 255, 255, 255, 15>>
            /\ n = NegPow2Minus1(31, 64) => buffer = <<129, 128, 128, 128, 16>>

\* the number of bytes the last decode call read from its reader
Consumed == Len(ret.input) - Len(ret.res.rest)

\* the reader held at least k bytes and its first k all had the
\* continuation bit set
ContinuationPrefix(k) ==
    /\ Len(ret.input) >= k
    /\ \A i \in 1..k : ret.input[i] >= 128

\* C14: decode_variable returns, with a value or an error, having read at
\* most 10 bytes, which are the first bytes of the reader; when the first 10
\* bytes all have the continuation bit set it returns the overflow
\* DecodeError having read those 10 and no 11th, however many follow.
BoundedDecode ==
    ret.op = "decode_variable" =>
        /\ Consumed \in 0..10
        /\ ret.res.rest = SubSeq(ret.input, Consumed + 1, Len(ret.input))
        /\ \/ ret.res.ok
           \/ ret.res.err \in {"DecodeError: Overflow when decoding integer value",
                               "io: UnexpectedEof"}
        /\ ContinuationPrefix(10) =>
            /\ ~ret.res.ok
            /\ ret.res.err = "DecodeError: Overflow when decoding integer value"
            /\ Consumed = 10

\* decode_variable on 11 bytes 0xE1 failed with overflow and left the 11th
BoundedDecodeWitness ==
    /\ ret.op = "decode_variable"
    /\ ret.input = Rep(225, 11)
    /\ ~ret.res.ok
    /\ ret.res.err = "DecodeError: Overflow when decoding integer value"
    /\ ret.res.rest = <<225>>

\* the 64-bit v lies in -2^31 .. 2^31-1: bits 31 to 63 are all the sign
InI32Range(v) == \A i \in 31..63 : v[i] = v[63]

\* C15: when zag_i64 yields v on the bytes of a reader, zag_i32 on the same
\* bytes returns v if -2^31 <= v <= 2^31-1 and fails with the DecodeError
\* "int out of range" otherwise; it never returns a truncated value.
ZagI32RangeCheck ==
    ret.op = "zag_i32" =>
        LET v == zag_i64(ret.input)
        IN  v.ok =>
                IF InI32Range(v.val)
                THEN /\ ret.res.ok
                     /\ I64FromI32(ret.res.val) = v.val
                     /\ ret.res.rest = v.rest
                ELSE /\ ~ret.res.ok
                     /\ ret.res.err = "DecodeError: int out of range"

\* zag_i32 on the bytes zig_i64(2147483648) pushed failed: out of range
ZagI32RangeCheckWitness ==
    /\ DecodedSingle("zag_i32", 64)
    /\ encoded[1].v = Pow2(31, 64)
    /\ ret.input = <<128, 128, 128, 128, 16>>
    /\ zag_i64(ret.input).ok
    /\ ~ret.res.ok
    /\ ret.res.err = "DecodeError: int out of range"

\* a successful decode read the bytes of its reader up to and including the
\* first one whose continuation bit is clear, and left the rest
ReadOneInteger ==
    \E k \in 1..Len(ret.input) :
        /\ ret.input[k] < 128
        /\ \A j \in 1..(k - 1) : ret.input[j] >= 128
        /\ Consumed = k
        /\ ret.res.rest = SubSeq(ret.input, k + 1, Len(ret.input))

\* zag_i64 was called on a reader over a buffer holding zig_i64(a) and then
\* zig_i64(b)
DecodedPair ==
    /\ rsrc = "buffer"
    /\ ret.op = "zag_i64"
    /\ Len(encoded) = 2
    /\ encoded[1].w = 64
    /\ encoded[2].w = 64

\* C19: a successful zag_i64 or decode_variable reads up to and including
\* the first byte whose continuation bit is clear and leaves the later bytes
\* unread; on the concatenation of zig_i64(a) and zig_i64(b) the first
\* zag_i64 call yields a and the second, on the reader as the first left it,
\* yields b.
DecodeConsumesOneInteger ==
    /\ (ret.op \in {"zag_i64", "decode_variable"} /\ ret.res.ok) => ReadOneInteger
    /\ (DecodedPair /\ ridx = 1) =>
        (ret.res.ok /\ ret.res.val = encoded[1].v)
    /\ (DecodedPair /\ ridx = 2 /\ zag_i64(buffer).ok
            /\ ret.input = zag_i64(buffer).rest) =>
        (ret.res.ok /\ ret.res.val = encoded[2].v /\ ret.res.rest = <<>>)

----------------------------------------------------------------------------
(* Claims about the allocation guard (SpecAlloc)                           *)

\* C8: the ceiling is the argument of the first call when that call was
\* max_allocation_bytes and 512 MiB when it was safe_len; it stays so, and
\* every max_allocation_bytes call returns it whatever its argument.
FirstSetWins ==
    afirst.op # "none" =>
        LET ceiling == IF afirst.op = "max_allocation_bytes"
                       THEN afirst.arg
                       ELSE 512 * 1024 * 1024
        IN  /\ MAX_ALLOCATION_BYTES = ceiling
            /\ acall.op = "max_allocation_bytes" => (acall.ok /\ acall.val = ceiling)

\* max_allocation_bytes(1024) called after max_allocation_bytes(42) was the
\* first call, returning 42
FirstSetWinsWitness ==
    /\ afirst = [op |-> "max_allocation_bytes", arg |-> 42]
    /\ acall.op = "max_allocation_bytes"
    /\ acall.arg = 1024
    /\ acall.val = 42

\* C9: safe_len(len) returns len when len <= the ceiling and fails with
\* AllocationError when len > the ceiling; when no max_allocation_bytes call
\* came first the ceiling is 512 MiB, safe_len(42) is 42, safe_len(1 GiB) fails.
SafeLenChecksCeiling ==
    acall.op = "safe_len" =>
        /\ IF acall.arg <= MAX_ALLOCATION_BYTES
           THEN acall.ok /\ acall.val = acall.arg
           ELSE ~acall.ok /\ acall.err = "AllocationError"
        /\ afirst.op = "safe_len" =>
            /\ MAX_ALLOCATION_BYTES = 512 * 1024 * 1024
            /\ acall.arg = 42 => (acall.ok /\ acall.val = 42)
            /\ acall.arg = 1024 * 1024 * 1024 => ~acall.ok

\* safe_len(1 GiB) failed with no max_allocation_bytes call before it
SafeLenChecksCeilingWitness ==
    /\ afirst.op = "safe_len"
    /\ acall.op = "safe_len"
    /\ acall.arg = 1024 * 1024 * 1024
    /\ ~acall.ok
    /\ acall.err = "AllocationError"

----------------------------------------------------------------------------
(* Claims about the Writer (SpecWriter)                                    *)

Kinds(chunks) == [i \in 1..Len(chunks) |-> chunks[i].kind]

\* what the last call added to the sink
Added == SubSeq(self.writer, Len(wcall.before) + 1, Len(self.writer))

HeaderKinds == <<"magic", "metadata", "marker">>
BlockKinds == <<"count", "length", "payload", "marker">>

RECURSIVE Blocks(_)
Blocks(k) == IF k = 0 THEN <<>> ELSE BlockKinds \o Blocks(k - 1)

\* the last call was append or extend
Extended == wcall.op \in {"append", "extend"}

\* every call so far was append or extend, and succeeded
OnlyGoodExtends ==
    /\ Len(wlog) >= 1
    /\ \A i \in 1..Len(wlog) : wlog[i].op \in {"append", "extend"} /\ wlog[i].ok

\* C3: after k >= 1 append/extend calls that all succeeded, and no header
\* call, the sink holds one header and then k blocks: the first call wrote
\* the header and its block, every later call a block only.
HeaderOnce ==
    OnlyGoodExtends =>
        /\ Kinds(self.writer) = HeaderKinds \o Blocks(Len(wlog))
        /\ SubSeq(SinkBytes(self.writer), 1, 4) = <<79, 98, 106, 1>>
        /\ Kinds(Added) = IF Len(wlog) = 1 THEN HeaderKinds \o BlockKinds ELSE BlockKinds

\* a second extend succeeded after a first one
HeaderOnceWitness ==
    /\ OnlyGoodExtends
    /\ Len(wlog) = 2
    /\ wcall.op = "extend"
    /\ wcall.values = <<ValueA, ValueB>>
    /\ Kinds(Added) = BlockKinds

\* C4: in every reachable state the sink holds the magic bytes at most once,
\* and before any block, whatever header, append and extend calls were made
\* and whichever sink writes failed.
HeaderExactlyOnce ==
    \A i \in 1..Len(self.writer) : self.writer[i].kind = "magic" => i = 1

\* the batch of the last call holds a value that cannot be serialized or
\* encoded, or the call's compression fails
Rejected ==
    /\ Extended
    /\ \/ \E i \in 1..Len(wcall.values) : wcall.values[i].kind # "ok"
       \/ ~wcall.env.compress_ok

\* C5: an extend whose batch holds a value that fails serialization or
\* schema encoding, or whose compression fails, returns an error, writes no
\* byte to the sink and leaves has_header as it was.
RejectedBatchWritesNothing ==
    Rejected =>
        /\ ~wcall.ok
        /\ wcall.writes = 0
        /\ self.writer = wcall.before
        /\ self.has_header = ~wcall.pending

\* extend of a batch whose second value mismatches, after a block was written
RejectedBatchWritesNothingWitness ==
    /\ wcall.op = "extend"
    /\ wcall.values = <<ValueA, Mismatch>>
    /\ Kinds(wcall.before) = HeaderKinds \o BlockKinds
    /\ ~wcall.ok
    /\ self.writer = wcall.before

\* C6: a successful extend returns the number of bytes it wrote to the sink
\* in that call, the header's bytes included when it wrote the header.
ExtendReturnsBytesWritten ==
    (Extended /\ wcall.ok) =>
        wcall.n = Len(SinkBytes(self.writer)) - Len(SinkBytes(wcall.before))

\* the number of sink writes a call makes when none fails
FullWrites ==
    IF wcall.op = "header" THEN 3 ELSE (IF wcall.pending THEN 3 ELSE 0) + 4

FullKinds ==
    IF wcall.op = "header" THEN HeaderKinds
    ELSE (IF wcall.pending THEN HeaderKinds ELSE <<>>) \o BlockKinds

FailsBeforeWriting ==
    \/ Rejected
    \/ ~wcall.env.json_ok /\ (wcall.op = "header" \/ wcall.pending)

MarkerChunks == {i \in 1..Len(self.writer) : self.writer[i].kind = "marker"}

\* C11: over any sequence of header, append and extend calls on one Writer,
\* every marker in the sink, after a header or after a block, is the same 16
\* bytes: the marker the Writer was constructed with, which no call changes.
MarkerConsistency ==
    /\ self.marker \in Markers
    /\ Len(self.marker) = 16
    /\ \A i \in MarkerChunks : self.writer[i].bytes = self.marker
    /\ \A i, j \in MarkerChunks : self.writer[i].bytes = self.writer[j].bytes

\* a header call and then an extend that wrote the header again and a block:
\* three markers in the sink
MarkerConsistencyWitness ==
    /\ Len(wlog) = 2
    /\ wlog[1] = [op |-> "header", ok |-> TRUE]
    /\ wcall.op = "extend"
    /\ wcall.ok
    /\ Cardinality(MarkerChunks) = 3
    /\ self.writer[3].bytes = self.writer[Len(self.writer)].bytes

\* the last call was extend with zero values, and none of its collaborators
\* or sink writes failed
ExtendedEmpty ==
    /\ wcall.op = "extend"
    /\ wcall.values = <<>>
    /\ wcall.env = NoFault

\* the four chunks of the block a successful extend added last
BlockOf(added) == SubSeq(added, Len(added) - 3, Len(added))

\* the long that the bytes of a chunk encode, when they encode one and no more
LongOf(bytes) ==
    LET r == zag_i64(bytes)
    IN  IF r.ok /\ r.rest = <<>> THEN r.val ELSE <<>>

\* C12: extend with zero values returns Ok and writes the header if it was
\* pending, then a block: count 0, the length of the codec's output for the
\* empty buffer, that output, and the marker.
EmptyBatchBlock ==
    ExtendedEmpty =>
        /\ wcall.ok
        /\ Kinds(Added) = (IF wcall.pending THEN HeaderKinds ELSE <<>>) \o BlockKinds
        /\ LET block == BlockOf(Added)
               payload == compress(self.codec, <<>>, NoFault).stream
           IN  /\ block[1].bytes = <<0>>
               /\ LongOf(block[2].bytes) = FromInt(Len(payload), 64)
               /\ block[3].bytes = payload
               /\ block[4].bytes = self.marker

\* the first call of a deflate Writer is extend with zero values: header,
\* then a block whose payload is the codec's framing of nothing
EmptyBatchBlockWitness ==
    /\ ExtendedEmpty
    /\ wcall.pending
    /\ self.codec = "deflate"
    /\ wcall.ok
    /\ Kinds(Added) = HeaderKinds \o BlockKinds
    /\ BlockOf(Added)[3].bytes # <<>>
    /\ LongOf(BlockOf(Added)[2].bytes) = FromInt(Len(BlockOf(Added)[3].bytes), 64)

\* the encodings of the values of the last call's batch, in input order
BatchStream == Concat([i \in 1..Len(wcall.values) |-> wcall.values[i].enc])

\* C16: a successful append/extend adds to the sink, after the header if it
\* was pending and with nothing in between: the long of the number of values
\* of the batch, the long of the byte length of the compressed buffer, the
\* compressed buffer, and the 16-byte marker; the buffer compressed is the
\* concatenation of the values' encodings in input order.
BlockFraming ==
    (Extended /\ wcall.ok) =>
        /\ Kinds(Added) = (IF wcall.pending THEN HeaderKinds ELSE <<>>) \o BlockKinds
        /\ LET block == BlockOf(Added)
           IN  /\ LongOf(block[1].bytes) = FromInt(Len(wcall.values), 64)
               /\ LongOf(block[2].bytes) = FromInt(Len(block[3].bytes), 64)
               /\ block[3].bytes = compress(self.codec, BatchStream, NoFault).stream
               /\ block[4].bytes = self.marker
               /\ Len(block[4].bytes) = 16

\* a deflate Writer's second call, extend of <<ValueB, ValueA>>, added one
\* block: count 2, length 5, the framed stream of B then A, the marker
BlockFramingWitness ==
    /\ wcall.op = "extend"
    /\ wcall.ok
    /\ ~wcall.pending
    /\ wcall.values = <<ValueB, ValueA>>
    /\ self.codec = "deflate"
    /\ Len(Added) = 4
    /\ Added[1].bytes = <<4>>
    /\ Added[2].bytes = <<10>>
    /\ Added[3].bytes = <<3, 4, 6, 2, 0>>
    /\ Added[4].bytes = self.marker

\* a sink write of the last call failed
SinkWriteFailed == wcall.op # "none" /\ wcall.env.fuse > 0

\* C18: when the k-th sink write of a header, append or extend call fails,
\* the call returns that error, having attempted k writes and no more (no
\* later write, no second try of the failed one): the sink holds the k-1
\* chunks written before the failure and nothing after them.
IoFailureStopsCall ==
    SinkWriteFailed =>
        /\ ~wcall.ok
        /\ wcall.err = "io"
        /\ wcall.writes = wcall.env.fuse
        /\ Len(Added) = wcall.env.fuse - 1
        /\ Kinds(Added) = SubSeq(FullKinds, 1, wcall.env.fuse - 1)

\* an extend on a Writer whose header is written, whose third sink write (the
\* payload) failed: the count and the length are in the sink, no marker
IoFailureStopsCallWitness ==
    /\ wcall.op = "extend"
    /\ ~wcall.pending
    /\ wcall.env.fuse = 3
    /\ ~wcall.ok
    /\ wcall.err = "io"
    /\ wcall.writes = 3
    /\ Kinds(Added) = <<"count", "length">>

----------------------------------------------------------------------------
(* Claims about the allocation guard under threads (SpecThreads)           *)

\* the threads whose call has returned
Returned == {t \in Threads : pc[t] = "done"}

\* C17: in every interleaving of threads calling max_allocation_bytes or
\* safe_len, the closure stores at most once, and exactly once before any
\* call returns; every call reads the ceiling after the Once is complete and
\* reads the one stored value, which every max_allocation_bytes call returns
\* and every safe_len compares its len with; nothing is stored afterwards.
ConcurrentInstallation ==
    /\ Len(installs) <= 1
    /\ Cardinality(running) <= 1
    /\ MAX_ALLOCATION_BYTES_ONCE => (Len(installs) = 1 /\ running = {})
    /\ \A t \in Returned :
        /\ Len(installs) = 1
        /\ MAX_ALLOCATION_BYTES = installs[1]
        /\ tret[t].complete
        /\ tret[t].max_bytes = installs[1]
        /\ targ[t].op = "max_allocation_bytes" => (tret[t].ok /\ tret[t].val = installs[1])
        /\ targ[t].op = "safe_len" =>
            IF targ[t].arg <= installs[1]
            THEN tret[t].ok /\ tret[t].val = targ[t].arg
            ELSE ~tret[t].ok
    /\ Len(installs) = 1 => \E t \in Threads : installs[1] = targ[t].num_bytes

\* threads called with three different num_bytes; all have returned, each
\* having read the 1024 that one of them stored
ConcurrentInstallationWitness ==
    /\ Returned = Threads
    /\ {targ[t].num_bytes : t \in Threads} = {42, 1024, DefaultMaxAllocationBytes}
    /\ installs = <<1024>>
    /\ \A t \in Threads : tret[t].max_bytes = 1024

====
